---- MODULE Spec2Model ----
(***************************************************************************)
(* Model of server_epoll.cpp: a single-threaded epoll reactor that         *)
(* multiplexes a signalfd, a listening socket and at most one client       *)
(* socket.  The program is modelled statement group by statement group     *)
(* (one action per loop iteration of main and of its drain sub-loops);     *)
(* the kernel objects it talks to (descriptor table, epoll interest list,  *)
(* listen backlog, socket receive queues, pending signals) are modelled    *)
(* with their Linux semantics, and peers and signal senders are free to    *)
(* act between any two program steps.                                      *)
(***************************************************************************)
EXTENDS Integers, Sequences, FiniteSets, TLC

\* ------------------------------------------------------------------ bounds
MaxConns == 3
\* connections ever attempted by peers
MaxBuffered == 2
\* bytes a socket receive queue holds at most
MaxHandles == 3
\* UniqueFd objects alive at once in the handle specification
\* receive queues are counted in units of one read buffer (sizeof(buf) bytes)

\* ------------------------------------------------------- program constants
SIGHUP == 1
SIGTERM == 15
NoFd == -1
EventsCap == 8
\* sizeof(buf), in units of one read buffer
BufCap == 1

Signals == {SIGHUP, SIGTERM}
Conns == 1..MaxConns
Handles == 1..MaxHandles
\* descriptors 0..2 are the standard streams; the process opens the signalfd,
\* the listener, the epoll instance, and then one descriptor per accepted socket
Fds == 3..(5 + MaxConns + 1)

Min(a, b) == IF a < b THEN a ELSE b
Max(a, b) == IF a > b THEN a ELSE b

VARIABLES
  pc,         \* position of main
  sfd,        \* SignalFd::fd_
  lst,        \* Listener::fd_
  ep,         \* Epoll::ep_
  client,     \* std::optional<Client>: NoFd when empty, else Client::fd_
  stop,       \* main's stop flag
  events,     \* the batch written by the last successful epoll_wait
  n,          \* return value of the last epoll_wait
  i,          \* index of the for loop over the batch
  dstop,      \* drain_and_handle's local stop
  out,        \* last line written to std::cout
  exitCode,   \* process exit status, -1 while the process runs
  os,         \* kernel objects of the process, with an audit of the calls made
  backlog,    \* connections queued on the listening socket
  sigq,       \* set of signals pending on the signalfd
  termSent,   \* history: a SIGTERM has been delivered
  owed,       \* history: bytes queued when the read-drain was entered, not yet received
  reuse,      \* history: what happened to the first accept after a removal
  gterm,      \* history: the current signal drain has consumed a SIGTERM
  had,        \* history: bytes queued when the current read-drain was entered
  hs          \* UniqueFd objects of the handle specification: [live, fd]

vars == <<pc, sfd, lst, ep, client, stop, events, n, i, dstop, out,
          exitCode, os, backlog, sigq, termSent, owed, reuse, gterm, had, hs>>

prog == <<pc, sfd, lst, ep, client, stop, events, n, i, dstop, out, exitCode, hs>>

\* ------------------------------------------------------------------ kernel
\* os.kind[fd]  : "free", "signal", "listen", "epoll" or "conn"
\* os.conn[fd]  : the connection a "conn" descriptor refers to, else 0
\* os.reg       : the interest list of the epoll instance
\* os.sock[c]   : st "new" | "pending" | "open" | "closed"; buf unread data;
\*                peer "open" | "fin" | "rst"
\* audit fields : role[c] "none" | "admitted" | "rejected"; wasReg, wasRead
\*                (connections ever registered / read from); closes[c], dels[c]
\*                (close calls, effective EPOLL_CTL_DEL calls, at most 2); relReg
\*                (descriptors closed while on the interest list); bad (a call
\*                on a descriptor that is not open); dup (EPOLL_CTL_ADD of a
\*                descriptor already on the list)

Os0 ==
  [kind   |-> [fd \in Fds |-> "free"],
   conn   |-> [fd \in Fds |-> 0],
   reg    |-> {},
   sock   |-> [c \in Conns |-> [st |-> "new", buf |-> 0, peer |-> "open"]],
   role   |-> [c \in Conns |-> "none"],
   wasReg |-> {},
   wasRead |-> {},
   closes |-> [c \in Conns |-> 0],
   dels   |-> [c \in Conns |-> 0],
   relReg |-> {},
   bad    |-> FALSE,
   dup    |-> FALSE]

OpenFds(k) == {fd \in Fds : k.kind[fd] # "free"}

LowestFree(k) == CHOOSE fd \in Fds \ OpenFds(k) : \A g \in Fds \ OpenFds(k) : fd <= g

\* a successful socket(), signalfd(), epoll_create1() or accept(): the lowest free descriptor
SysOpen(k, fd, kind, c) ==
  [k EXCEPT !.kind[fd] = kind, !.conn[fd] = c]

\* close(2): frees the descriptor; the kernel drops it from the interest list;
\* closing the epoll descriptor destroys the interest list; a closed socket is
\* destroyed with its receive queue
SysClose(k, fd) ==
  IF fd \notin Fds \/ k.kind[fd] = "free"
  THEN [k EXCEPT !.bad = TRUE]
  ELSE LET c == k.conn[fd] IN
       [k EXCEPT
          !.kind[fd] = "free",
          !.conn[fd] = 0,
          !.reg = IF k.kind[fd] = "epoll" THEN {} ELSE @ \ {fd},
          !.relReg = IF fd \in k.reg THEN @ \cup {fd} ELSE @,
          !.sock = IF c \in Conns
                   THEN [@ EXCEPT ![c] = [st |-> "closed", buf |-> 0, peer |-> "open"]]
                   ELSE @,
          !.closes = IF c \in Conns THEN [@ EXCEPT ![c] = Min(@ + 1, 2)] ELSE @]

\* ---------------------------------------------------------------- UniqueFd
\* UniqueFd::valid
valid(fd) == fd # NoFd

\* UniqueFd::reset (and ~UniqueFd): the kernel state after releasing fd
UniqueFd_reset_leak(k, fd) == k
UniqueFd_reset(k, fd) == IF fd # NoFd THEN SysClose(k, fd) ELSE k

\* ------------------------------------------------------------------- Epoll
\* Epoll::add_in: EPOLL_CTL_ADD, result ignored
add_in_nop(k, e, fd) == k
add_in(k, e, fd) ==
  IF e \notin Fds \/ k.kind[e] # "epoll" \/ fd \notin Fds \/ k.kind[fd] = "free"
  THEN [k EXCEPT !.bad = TRUE]
  ELSE IF fd \in k.reg
       THEN [k EXCEPT !.dup = TRUE]
       ELSE [k EXCEPT !.reg = @ \cup {fd},
                      !.wasReg = IF k.conn[fd] \in Conns THEN @ \cup {k.conn[fd]} ELSE @]

\* Epoll::del: EPOLL_CTL_DEL, result ignored
del_nop(k, e, fd) == k
del(k, e, fd) ==
  IF e \notin Fds \/ k.kind[e] # "epoll" \/ fd \notin Fds \/ k.kind[fd] = "free"
  THEN [k EXCEPT !.bad = TRUE]
  ELSE [k EXCEPT !.reg = @ \ {fd},
                 !.dels = IF fd \in k.reg /\ k.conn[fd] \in Conns
                          THEN [@ EXCEPT ![k.conn[fd]] = Min(@ + 1, 2)] ELSE @]

\* unread bytes queued on descriptor fd
Queued(k, fd) == IF fd \in Fds /\ k.conn[fd] \in Conns THEN k.sock[k.conn[fd]].buf ELSE 0

\* what epoll_wait would report: level-triggered read readiness
Readable(k, fd) ==
  CASE k.kind[fd] = "signal" -> sigq # {}
    [] k.kind[fd] = "listen" -> backlog # <<>>
    [] k.kind[fd] = "conn"   -> LET s == k.sock[k.conn[fd]] IN s.buf > 0 \/ s.peer # "open"
    [] OTHER -> FALSE

ReadySet == {fd \in os.reg : Readable(os, fd)}

Perms(S) == {q \in [1..Cardinality(S) -> S] : \A a, b \in 1..Cardinality(S) : a # b => q[a] # q[b]}

\* ---------------------------------------------------------- construction
\* SignalFd::SignalFd
SignalFd_ctor(k, ok) ==
  IF ok THEN [fd |-> LowestFree(k), os |-> SysOpen(k, LowestFree(k), "signal", 0)]
  ELSE [fd |-> NoFd, os |-> k]

\* Listener::Listener: step is the first call that fails, or "ok"
Listener_ctor_leak(k, step) ==
  IF step = "socket" THEN [fd |-> NoFd, os |-> k]
  ELSE [fd |-> IF step = "ok" THEN LowestFree(k) ELSE NoFd,
        os |-> SysOpen(k, LowestFree(k), "listen", 0)]
Listener_ctor(k, step) ==
  IF step = "socket" THEN [fd |-> NoFd, os |-> k]
  ELSE LET s  == LowestFree(k)
           k1 == SysOpen(k, s, "listen", 0) IN
       IF step \in {"bind", "listen"}
       THEN [fd |-> NoFd, os |-> SysClose(k1, s)]
       ELSE [fd |-> s, os |-> k1]

\* Epoll::Epoll
Epoll_ctor(k, ok) ==
  IF ok THEN [fd |-> LowestFree(k), os |-> SysOpen(k, LowestFree(k), "epoll", 0)]
  ELSE [fd |-> NoFd, os |-> k]

Init ==
  \E sok \in BOOLEAN, lstep \in {"ok", "socket", "bind", "listen"}, eok \in BOOLEAN :
    LET a == SignalFd_ctor(Os0, sok)
        b == Listener_ctor(a.os, lstep)
        c == Epoll_ctor(b.os, eok) IN
    /\ sfd = a.fd /\ lst = b.fd /\ ep = c.fd /\ os = c.os
    /\ pc = "start" /\ client = NoFd /\ stop = FALSE
    /\ events = <<>> /\ n = 0 /\ i = 0 /\ dstop = FALSE 
    /\ out = "" /\ exitCode = -1
    /\ backlog = <<>> /\ sigq = {}
    /\ termSent = FALSE /\ owed = 0 /\ reuse = "none" /\ gterm = FALSE /\ had = 0
    /\ hs = [h \in Handles |-> [live |-> FALSE, fd |-> NoFd]]

\* -------------------------------------------------------------------- main
\* std::optional<Client>::has_value
has_value_never(cl) == FALSE
has_value(cl) == cl # NoFd

\* std::optional<Client>::reset: the slot afterwards
optional_reset_keep(cl) == cl
optional_reset(cl) == NoFd

\* while (!stop)
LoopCond_always(s) == TRUE
LoopCond(s) == ~s

\* i < n of the for loop, L190 (the stop flag takes no part in it)
ForCond_untilStop(idx, cnt, s) == idx < cnt /\ ~s
ForCond(idx, cnt, s) == idx < cnt

\* continue of the for loop: next entry of the batch
NextEvent ==
  /\ i' = i + 1
  /\ pc' = "dispatch"

\* main L174: one of the three objects is invalid, return 1
StartupFail ==
  /\ pc = "start"
  /\ ~(valid(sfd) /\ valid(lst) /\ valid(ep))
  /\ exitCode' = 1
  /\ pc' = "teardown"
  /\ UNCHANGED <<sfd, lst, ep, client, stop, events, n, i, dstop, out,
                 os, backlog, sigq, termSent, owed, reuse, gterm, had>>
  /\ UNCHANGED hs

\* main L174-184: register the two fixed descriptors, announce the port
StartupOk ==
  /\ pc = "start"
  /\ valid(sfd) /\ valid(lst) /\ valid(ep)
  /\ os' = add_in(add_in(os, ep, sfd), ep, lst)
  /\ out' = "Listening on port"
  /\ pc' = "loop"
  /\ UNCHANGED <<sfd, lst, ep, client, stop, events, n, i, dstop,
                 exitCode, backlog, sigq, termSent, owed, reuse, gterm, had>>
  /\ UNCHANGED hs

\* main L186-190: epoll_wait returns the ready descriptors, in any order
EpWaitReady ==
  /\ pc = "loop"
  /\ LoopCond(stop)
  /\ ReadySet # {}
  /\ \E q \in Perms(ReadySet) :
       /\ n' = Min(Len(q), EventsCap)
       /\ events' = SubSeq(q, 1, Min(Len(q), EventsCap))
  /\ i' = 0
  /\ pc' = "dispatch"
  /\ UNCHANGED <<sfd, lst, ep, client, stop, dstop, out, exitCode,
                 os, backlog, sigq, termSent, owed, reuse, gterm, had>>
  /\ UNCHANGED hs

\* if (n <= 0) continue;  L188: back to the loop condition
AfterEmptyWait_exit == "teardown"
AfterEmptyWait == "loop"

\* main L187-188: epoll_wait returns 0 or -1, continue
EpWaitEmpty ==
  /\ pc = "loop"
  /\ LoopCond(stop)
  /\ \E v \in {0, -1} : n' = v
  /\ pc' = AfterEmptyWait
  /\ UNCHANGED <<sfd, lst, ep, client, stop, events, i, dstop, out, exitCode,
                 os, backlog, sigq, termSent, owed, reuse, gterm, had>>
  /\ UNCHANGED hs

\* main L190-220: end of the batch (n, i and the batch go out of scope), or the
\* branch taken for events[i]
Dispatch ==
  /\ pc = "dispatch"
  /\ IF ~ForCond(i, n, stop)
     THEN /\ pc' = "loop"
          /\ events' = <<>> /\ n' = 0 /\ i' = 0
          /\ UNCHANGED <<dstop, owed, gterm, had>>
     ELSE LET fd == events[i + 1] IN
          IF fd = sfd
          THEN /\ pc' = "sigdrain"
               /\ dstop' = FALSE
               /\ gterm' = FALSE
               /\ UNCHANGED <<events, n, i, owed, had>>
          ELSE IF fd = lst
          THEN /\ pc' = "accept"
               /\ UNCHANGED <<events, n, i, dstop, owed, gterm, had>>
          ELSE IF has_value(client) /\ fd = client
          THEN /\ pc' = "recv"
               /\ owed' = Queued(os, client)
               /\ had' = Queued(os, client)
               /\ UNCHANGED <<events, n, i, dstop, gterm>>
          ELSE /\ NextEvent
               /\ UNCHANGED <<events, n, dstop, owed, gterm, had>>
  /\ UNCHANGED <<sfd, lst, ep, client, stop, out, exitCode,
                 os, backlog, sigq, termSent, reuse>>
  /\ UNCHANGED hs

\* ------------------------------------------------ SignalFd::drain_and_handle
\* the branch that sets the local stop
SignalStops_any(signo) == TRUE
SignalStops(signo) == signo = SIGTERM

SignalLine(signo) ==
  IF signo = SIGHUP THEN "[signal] SIGHUP"
  ELSE IF signo = SIGTERM THEN "[signal] SIGTERM -> shutdown"
  ELSE "[signal] other"

\* the local stop of drain_and_handle after one more signal, L93-105
DrainStop_last(d, signo) == SignalStops(signo)
DrainStop(d, signo) == d \/ SignalStops(signo)

\* stop |= drain_and_handle(...)
StopMerge(s, d) == s \/ d

\* read(2) on the signalfd dequeues the lowest-numbered pending signal
NextSignal(q) == CHOOSE s \in q : \A t \in q : s <= t

\* L95-104: read returns one signalfd_siginfo
SigRead ==
  /\ pc = "sigdrain"
  /\ sigq # {}
  /\ sigq' = sigq \ {NextSignal(sigq)}
  /\ out' = SignalLine(NextSignal(sigq))
  /\ dstop' = DrainStop(dstop, NextSignal(sigq))
  /\ gterm' = (gterm \/ NextSignal(sigq) = SIGTERM)
  /\ UNCHANGED <<pc, sfd, lst, ep, client, stop, events, n, i, exitCode,
                 os, backlog, termSent, owed, reuse, had>>
  /\ UNCHANGED hs

\* L95, L105, main L194-195: read fails with EAGAIN, the drain returns
SigReturn ==
  /\ pc = "sigdrain"
  /\ sigq = {}
  /\ stop' = StopMerge(stop, dstop)
  /\ dstop' = FALSE
  /\ gterm' = FALSE
  /\ NextEvent
  /\ UNCHANGED <<sfd, lst, ep, client, events, n, out, exitCode,
                 os, backlog, sigq, termSent, owed, reuse, had>>
  /\ UNCHANGED hs

\* --------------------------------------------------------- accept-drain loop
\* Client::Client and ep.add_in(client->fd()), L209-210
Admit_unregistered(k, e, nf) == k
Admit(k, e, nf) == add_in(k, e, nf)

\* ::close(nf), L214
Reject_leak(k, nf) == k
Reject_closeActive(k, nf) == SysClose(k, client)
Reject(k, nf) == SysClose(k, nf)

\* history: the first accept after a removal, admitted and registered or not
ReuseNext(admitted) ==
  IF reuse = "removed" THEN (IF admitted THEN "admitted" ELSE "rejected") ELSE reuse

\* L201-204: the stop flag after an accept error other than EAGAIN: break only
OnAcceptError_fatal(s) == TRUE
OnAcceptError(s) == s

\* L200-204: accept fails with EAGAIN, break
AcceptNone ==
  /\ pc = "accept"
  /\ backlog = <<>>
  /\ NextEvent
  /\ UNCHANGED <<sfd, lst, ep, client, stop, events, n, dstop, out, exitCode,
                 os, backlog, sigq, termSent, owed, reuse, gterm, had>>
  /\ UNCHANGED hs

\* L200-204: accept fails with another error, break
AcceptFail ==
  /\ pc = "accept"
  /\ backlog # <<>>
  /\ stop' = OnAcceptError(stop)
  /\ NextEvent
  /\ UNCHANGED <<sfd, lst, ep, client, events, n, dstop, out, exitCode,
                 os, backlog, sigq, termSent, owed, reuse, gterm, had>>
  /\ UNCHANGED hs

\* L200-215: accept returns a connection, admitted or rejected
AcceptConn ==
  /\ pc = "accept"
  /\ backlog # <<>>
  /\ LET c  == Head(backlog)
         nf == LowestFree(os)
         k0 == SysOpen(os, nf, "conn", c)
         k1 == [k0 EXCEPT !.sock[c].st = "open",
                          !.role[c] = IF client = NoFd THEN "admitted" ELSE "rejected"] IN
     /\ IF ~has_value(client)
        THEN /\ client' = nf
             /\ os' = Admit(k1, ep, nf)
             /\ out' = "This connection is now the active client"
        ELSE /\ client' = client
             /\ os' = Reject(k1, nf)
             /\ out' = "Active client already present, closing new"
     /\ reuse' = ReuseNext(client' = nf /\ nf \in os'.reg /\ os'.conn[nf] = c)
  /\ backlog' = Tail(backlog)
  /\ UNCHANGED <<pc, sfd, lst, ep, stop, events, n, i, dstop, exitCode,
                 sigq, termSent, owed, gterm, had>>
  /\ UNCHANGED hs

\* ----------------------------------------------------------- read-drain loop
\* Client::recv_some on descriptor fd: queued data first, then a pending
\* error, then end of stream, else EAGAIN
recv_some(k, fd) ==
  IF fd \notin Fds \/ k.kind[fd] # "conn"
  THEN [r |-> -1, errno |-> "EOTHER", os |-> [k EXCEPT !.bad = TRUE]]
  ELSE LET c  == k.conn[fd]
           s  == k.sock[c]
           k1 == [k EXCEPT !.wasRead = @ \cup {c}] IN
       IF s.buf > 0
       THEN [r |-> Min(s.buf, BufCap), errno |-> "none",
             os |-> [k1 EXCEPT !.sock[c].buf = @ - Min(s.buf, BufCap)]]
       ELSE IF s.peer = "rst" THEN [r |-> -1, errno |-> "EOTHER", os |-> k1]
       ELSE IF s.peer = "fin" THEN [r |-> 0, errno |-> "none", os |-> k1]
       ELSE [r |-> -1, errno |-> "EAGAIN", os |-> k1]

\* errno == EAGAIN || errno == EWOULDBLOCK, L238
IsAgain_any(e) == TRUE
IsAgain_never(e) == FALSE
IsAgain(e) == e = "EAGAIN"

\* ep.del(client->fd()); client.reset();  L233-234 and L243-244
DropClient_noDel(k, e, fd) == UniqueFd_reset(k, fd)
DropClient(k, e, fd) == UniqueFd_reset(del(k, e, fd), fd)

\* what the loop does after a positive read: continue
AfterData_break == "dispatch"
AfterData == "recv"

\* L224-229: data, keep draining
RecvData ==
  /\ pc = "recv"
  /\ LET res == recv_some(os, client) IN
     /\ res.r > 0
     /\ os' = res.os
     /\ owed' = Max(0, owed - res.r)
  /\ out' = "Received bytes"
  /\ pc' = AfterData
  /\ i' = IF AfterData = "recv" THEN i ELSE i + 1
  /\ had' = IF AfterData = "recv" THEN had ELSE 0
  /\ UNCHANGED <<sfd, lst, ep, client, stop, events, n, dstop, exitCode,
                 backlog, sigq, termSent, reuse, gterm>>
  /\ UNCHANGED hs

\* L231-236: end of stream, deregister and empty the slot
RecvEof ==
  /\ pc = "recv"
  /\ LET res == recv_some(os, client) IN
     /\ res.r = 0
     /\ os' = DropClient(res.os, ep, client)
  /\ out' = "Client closed connection"
  /\ client' = optional_reset(client)
  /\ reuse' = "removed"
  /\ NextEvent
  /\ had' = 0
  /\ UNCHANGED <<sfd, lst, ep, stop, events, n, dstop, exitCode,
                 backlog, sigq, termSent, owed, gterm>>
  /\ UNCHANGED hs

\* L238-240: nothing to read right now, keep the client
RecvAgain ==
  /\ pc = "recv"
  /\ LET res == recv_some(os, client) IN
     /\ res.r < 0 /\ IsAgain(res.errno)
     /\ os' = res.os
  /\ NextEvent
  /\ had' = 0
  /\ UNCHANGED <<sfd, lst, ep, client, stop, events, n, dstop, out, exitCode,
                 backlog, sigq, termSent, owed, reuse, gterm>>
  /\ UNCHANGED hs

\* L242-245: receive error, deregister and empty the slot
RecvError ==
  /\ pc = "recv"
  /\ LET res == recv_some(os, client) IN
     /\ res.r < 0 /\ ~IsAgain(res.errno)
     /\ os' = DropClient(res.os, ep, client)
  /\ out' = "Client recv error"
  /\ client' = optional_reset(client)
  /\ reuse' = "removed"
  /\ NextEvent
  /\ had' = 0
  /\ UNCHANGED <<sfd, lst, ep, stop, events, n, dstop, exitCode,
                 backlog, sigq, termSent, owed, gterm>>
  /\ UNCHANGED hs

\* ------------------------------------------------------------ leaving main
\* L186, L253-254: the loop condition fails, return 0
Shutdown ==
  /\ pc = "loop"
  /\ ~LoopCond(stop)
  /\ out' = "Server stopped"
  /\ exitCode' = 0
  /\ pc' = "teardown"
  /\ UNCHANGED <<sfd, lst, ep, client, stop, events, n, i, dstop,
                 os, backlog, sigq, termSent, owed, reuse, gterm, had>>
  /\ UNCHANGED hs

\* destructors at the end of main, in reverse order of declaration:
\* client, ep, lst, sfd
Destroy(k) ==
  UniqueFd_reset(UniqueFd_reset(UniqueFd_reset(UniqueFd_reset(k, client), ep), lst), sfd)

Teardown ==
  /\ pc = "teardown"
  /\ os' = Destroy(os)
  /\ client' = NoFd /\ ep' = NoFd /\ lst' = NoFd /\ sfd' = NoFd
  /\ pc' = "done"
  /\ UNCHANGED <<stop, events, n, i, dstop, out, exitCode,
                 backlog, sigq, termSent, owed, reuse, gterm, had>>
  /\ UNCHANGED hs

\* ------------------------------------------------------------- environment
\* peers and signal senders act while main runs
Alive == exitCode = -1

\* a peer connects: the connection is queued on the listening socket
Connect ==
  /\ Alive
  /\ lst # NoFd /\ os.kind[lst] = "listen"
  /\ \E c \in Conns :
       /\ os.sock[c].st = "new"
       /\ \A d \in Conns : d < c => os.sock[d].st # "new"
       /\ os' = [os EXCEPT !.sock[c].st = "pending"]
       /\ backlog' = Append(backlog, c)
  /\ UNCHANGED <<prog, sigq, termSent, owed, reuse, gterm, had>>

\* The program sees a peer's bytes, FIN or RST only through recv and through the
\* readiness of a registered descriptor, both of which need the socket accepted:
\* what a peer does while its connection is still queued is indistinguishable
\* from doing it right after the accept, and is modelled as such.
Live(c) == os.sock[c].st = "open"

\* a peer writes one byte
Send ==
  /\ Alive
  /\ \E c \in Conns :
       /\ Live(c) /\ os.sock[c].peer = "open" /\ os.sock[c].buf < MaxBuffered
       /\ os' = [os EXCEPT !.sock[c].buf = @ + 1]
  /\ UNCHANGED <<prog, backlog, sigq, termSent, owed, reuse, gterm, had>>

\* a peer shuts its sending side down
PeerClose ==
  /\ Alive
  /\ \E c \in Conns :
       /\ Live(c) /\ os.sock[c].peer = "open"
       /\ os' = [os EXCEPT !.sock[c].peer = "fin"]
  /\ UNCHANGED <<prog, backlog, sigq, termSent, owed, reuse, gterm, had>>

\* a peer resets the connection
PeerReset ==
  /\ Alive
  /\ \E c \in Conns :
       /\ Live(c) /\ os.sock[c].peer # "rst"
       /\ os' = [os EXCEPT !.sock[c].peer = "rst"]
  /\ UNCHANGED <<prog, backlog, sigq, termSent, owed, reuse, gterm, had>>

\* a blocked signal of the mask becomes pending (standard signals do not queue)
Deliver ==
  /\ Alive
  /\ \E s \in Signals :
       /\ sigq' = sigq \cup {s}
       /\ termSent' = (termSent \/ s = SIGTERM)
  /\ UNCHANGED <<prog, os, backlog, owed, reuse, gterm, had>>

Step ==
  \/ StartupFail \/ StartupOk \/ EpWaitReady \/ Dispatch
  \/ SigRead \/ SigReturn
  \/ AcceptNone \/ AcceptFail \/ AcceptConn
  \/ RecvData \/ RecvEof \/ RecvAgain \/ RecvError
  \/ Shutdown \/ Teardown

Env == Connect \/ Send \/ PeerClose \/ PeerReset \/ Deliver

Next == Step \/ EpWaitEmpty \/ Env

Spec == Init /\ [][Next]_vars

\* the program runs: every enabled step other than a spurious wake is eventually taken
FairSpec == Spec /\ WF_vars(Step)

\* ------------------------------------------------- UniqueFd as a data type
\* A second specification: up to MaxHandles UniqueFd objects and every operation
\* of the class on them, over the kernel of the main specification.  hs[h].live
\* tells whether object h exists, hs[h].fd is its fd_.  main does not run here.
main == <<pc, sfd, lst, ep, client, stop, events, n, i, dstop, out, exitCode,
          backlog, sigq, termSent, owed, reuse, gterm, had>>

\* a successful system call hands out the lowest free descriptor for resource c
Acquire(k, c) == [SysOpen(k, LowestFree(k), "conn", c) EXCEPT !.sock[c].st = "open"]

Fresh(c) == os.sock[c].st = "new" /\ \A d \in Conns : d < c => os.sock[d].st # "new"

\* o.fd_ = -1: the source of a move afterwards
MovedFrom_copy(fd) == fd
MovedFrom(fd) == NoFd

\* UniqueFd() = default
DefaultConstruct ==
  \E h \in Handles :
    /\ ~hs[h].live
    /\ hs' = [hs EXCEPT ![h] = [live |-> TRUE, fd |-> NoFd]]
    /\ UNCHANGED <<main, os>>

\* explicit UniqueFd(int fd), on a descriptor just acquired
Wrap ==
  \E h \in Handles, c \in Conns :
    /\ ~hs[h].live /\ Fresh(c)
    /\ os' = Acquire(os, c)
    /\ hs' = [hs EXCEPT ![h] = [live |-> TRUE, fd |-> LowestFree(os)]]
    /\ UNCHANGED main

\* UniqueFd(UniqueFd&& o)
MoveConstruct ==
  \E h, o \in Handles :
    /\ h # o /\ ~hs[h].live /\ hs[o].live
    /\ hs' = [hs EXCEPT ![h] = [live |-> TRUE, fd |-> hs[o].fd],
                        ![o] = [live |-> TRUE, fd |-> MovedFrom(hs[o].fd)]]
    /\ UNCHANGED <<main, os>>

\* operator=(UniqueFd&& o), self-assignment included
MoveAssign ==
  \E h, o \in Handles :
    /\ hs[h].live /\ hs[o].live
    /\ IF h # o
       THEN /\ os' = UniqueFd_reset(os, hs[h].fd)
            /\ hs' = [hs EXCEPT ![h] = [live |-> TRUE, fd |-> hs[o].fd],
                                ![o] = [live |-> TRUE, fd |-> MovedFrom(hs[o].fd)]]
       ELSE UNCHANGED <<os, hs>>
    /\ UNCHANGED main

\* reset(): release, the object stays and is empty
Reset ==
  \E h \in Handles :
    /\ hs[h].live
    /\ os' = UniqueFd_reset(os, hs[h].fd)
    /\ hs' = [hs EXCEPT ![h] = [live |-> TRUE, fd |-> NoFd]]
    /\ UNCHANGED main

\* reset(newfd) with a descriptor just acquired: the argument is evaluated
\* first, then the old descriptor is closed
ResetTo ==
  \E h \in Handles, c \in Conns :
    /\ hs[h].live /\ Fresh(c)
    /\ os' = UniqueFd_reset(Acquire(os, c), hs[h].fd)
    /\ hs' = [hs EXCEPT ![h] = [live |-> TRUE, fd |-> LowestFree(os)]]
    /\ UNCHANGED main

\* ~UniqueFd
Destruct ==
  \E h \in Handles :
    /\ hs[h].live
    /\ os' = UniqueFd_reset(os, hs[h].fd)
    /\ hs' = [hs EXCEPT ![h] = [live |-> FALSE, fd |-> NoFd]]
    /\ UNCHANGED main

HandleInit ==
  /\ pc = "handles" /\ sfd = NoFd /\ lst = NoFd /\ ep = NoFd /\ client = NoFd
  /\ stop = FALSE /\ events = <<>> /\ n = 0 /\ i = 0 /\ dstop = FALSE
  /\ out = "" /\ exitCode = -1 /\ os = Os0
  /\ backlog = <<>> /\ sigq = {}
  /\ termSent = FALSE /\ owed = 0 /\ reuse = "none" /\ gterm = FALSE /\ had = 0
  /\ hs = [h \in Handles |-> [live |-> FALSE, fd |-> NoFd]]

HandleNext ==
  \/ DefaultConstruct \/ Wrap \/ MoveConstruct \/ MoveAssign
  \/ Reset \/ ResetTo \/ Destruct

HandleSpec == HandleInit /\ [][HandleNext]_vars

\* ================================================================== claims
Accepted(c) == os.role[c] # "none"
SlotConn == IF client # NoFd /\ client \in Fds THEN os.conn[client] ELSE 0

\* C1: Single admission.  At most one accepted connection is open at any time;
\* a connection accepted while the slot was empty is the one in the slot, and is
\* on the interest list, for as long as it is open; a connection accepted while
\* the slot was occupied is closed (once), was never put on the interest list
\* and was never read from; whatever is in the slot was admitted.
C1_SingleAdmission ==
  /\ Cardinality({c \in Conns : os.sock[c].st = "open"}) <= 1
  /\ \A c \in Conns :
       /\ os.role[c] = "admitted" =>
            /\ c \in os.wasReg
            /\ os.sock[c].st = "open" => (SlotConn = c /\ client \in os.reg)
       /\ os.role[c] = "rejected" =>
            /\ os.sock[c].st = "closed" /\ os.closes[c] = 1
            /\ c \notin os.wasReg /\ c \notin os.wasRead
  /\ client # NoFd => (SlotConn \in Conns /\ os.role[SlotConn] = "admitted")

\* C1 witness: one connection is active and another one has been rejected
C1_Witness ==
  \E c, d \in Conns :
    /\ os.role[c] = "admitted" /\ os.sock[c].st = "open" /\ SlotConn = c
    /\ os.role[d] = "rejected"

\* C2: Slot reuse.  After the active client is removed (end of stream or
\* receive error) the slot is empty until the next accept, and the first
\* connection accepted after the removal is admitted and registered.
C2_SlotReuse ==
  /\ reuse # "rejected"
  /\ reuse = "removed" => client = NoFd

\* C2 witness: a connection admitted after an earlier client was removed
C2_Witness ==
  /\ reuse = "admitted"
  /\ client # NoFd /\ client \in os.reg
  /\ \E c \in Conns : os.role[c] = "admitted" /\ os.sock[c].st = "closed" /\ os.dels[c] = 1

\* the program step taken when recv is called on an end-of-stream socket with
\* nothing queued (recv returns zero)
EofNow ==
  /\ pc = "recv" /\ SlotConn \in Conns
  /\ os.sock[SlotConn].buf = 0 /\ os.sock[SlotConn].peer = "fin"

\* C3: Orderly close.  A recv that returns zero deregisters the client's
\* descriptor once, closes it once and empties the slot, and the drain stops;
\* no connection is ever closed or deregistered twice, and no call is made on a
\* descriptor that is not open.
C3_OrderlyCloseStep ==
  (EofNow /\ pc' # "recv") =>
     /\ client' = NoFd
     /\ client \notin os'.reg
     /\ os'.kind[client] = "free"
     /\ os'.dels[SlotConn] = 1 /\ os'.closes[SlotConn] = 1
     /\ os'.relReg = os.relReg
     /\ pc' = "dispatch" /\ i' = i + 1

C3_OrderlyClose ==
  /\ [](\A c \in Conns : os.closes[c] <= 1 /\ os.dels[c] <= 1)
  /\ [](~os.bad)
  /\ [][C3_OrderlyCloseStep]_vars

\* C3 witness: a client was removed by an orderly close
C3_Witness ==
  /\ out = "Client closed connection"
  /\ client = NoFd
  /\ \E c \in Conns : os.dels[c] = 1 /\ os.closes[c] = 1 /\ os.sock[c].st = "closed"

\* C4: Exhaustive drain.  Whatever was queued when the read-drain was entered
\* has been received by the time the drain is left, and the drain is left with
\* the client kept only by a recv that found nothing queued on a socket that
\* is neither at end of stream nor in error.
C4_LeaveStep ==
  (pc = "recv" /\ pc' # "recv" /\ client' # NoFd) =>
     /\ SlotConn \in Conns
     /\ os.sock[SlotConn].buf = 0 /\ os.sock[SlotConn].peer = "open"
     /\ client' = client

C4_ExhaustiveDrain ==
  /\ [](pc # "recv" => owed = 0)
  /\ [][C4_LeaveStep]_vars

\* C4 witness: a full queue has been received in one pass of the drain
C4_Witness ==
  /\ pc = "recv" /\ had = MaxBuffered /\ had > BufCap
  /\ owed = 0 /\ out = "Received bytes"

\* main is inside the dispatch loop
Running == pc \in {"loop", "dispatch", "sigdrain", "accept", "recv"}

\* C5: Terminate signal liveness.  A SIGTERM pending while the loop runs leads
\* to the process having exited with code 0 after the shutdown line.
C5_TermLeadsToExit ==
  (Running /\ SIGTERM \in sigq) ~> (pc = "done" /\ exitCode = 0 /\ out = "Server stopped")

\* C5, the case that does hold: unless peers keep sending or signals keep
\* arriving forever, a pending SIGTERM does lead to exit code 0.
C5_ExitUnlessFlooded ==
  ([]<><<Deliver \/ Send>>_vars) \/ C5_TermLeadsToExit

\* C6: Reload safety.  As long as no SIGTERM has been delivered the stop flag
\* is false, in main and in the drain, and the process has not left the loop.
C6_ReloadSafe ==
  (~termSent /\ pc # "start") => (~stop /\ ~dstop /\ (Running \/ exitCode = 1))

\* C6 witness: a SIGHUP has been handled, no SIGTERM was ever delivered, and
\* the loop is at its wait again
C6_Witness ==
  /\ ~termSent /\ out = "[signal] SIGHUP"
  /\ pc = "loop" /\ ~stop

\* a step that performs epoll_wait
WaitStep == pc = "loop" /\ (pc' = "dispatch" \/ n' # n)

\* C7: Stop flag discipline.  stop is false initially, is set only by the
\* return of a signal drain that consumed a SIGTERM, is never cleared, and no
\* epoll_wait is performed once it is set.
C7_StopStep ==
  /\ stop => stop'
  /\ (~stop /\ stop') => (pc = "sigdrain" /\ gterm)
  /\ stop => ~WaitStep

C7_StopDiscipline == ~stop /\ [][C7_StopStep]_vars

\* C7 witness: the flag is set while entries of the batch are still to be
\* dispatched
C7_Witness == stop /\ pc = "dispatch" /\ i < n

\* the descriptors the loop owns
Owned == {sfd, lst} \cup (IF client # NoFd THEN {client} ELSE {})

\* C8: Registration set.  At every epoll_wait the interest list is exactly the
\* signalfd, the listener and the client's descriptor if the slot is occupied;
\* each of them is open and refers to its own resource, and no descriptor was
\* ever added twice.
C8_RegistrationSet ==
  (pc = "loop" /\ ~stop) =>
     /\ os.reg = Owned
     /\ os.kind[sfd] = "signal" /\ os.kind[lst] = "listen"
     /\ client # NoFd => (os.kind[client] = "conn" /\ os.sock[os.conn[client]].st = "open")
     /\ ~os.dup /\ ~os.bad

\* C8 witness: a wait with a client registered after an earlier one was removed
C8_Witness ==
  /\ pc = "loop" /\ ~stop
  /\ client # NoFd /\ Cardinality(os.reg) = 3
  /\ reuse = "admitted"

\* C9: Deregister before release.  No descriptor is closed while it is still on
\* the interest list.
C9_DeregBeforeRelease == os.relReg = {}

\* C10: Connection resource lifecycle.  No accepted connection is closed twice,
\* no call is made on a descriptor that is not open, the descriptor in the slot
\* always refers to a connection that is open, and when the process has exited
\* every accepted connection has been closed exactly once and no descriptor is
\* left open.
C10_Lifecycle ==
  /\ \A c \in Conns : os.closes[c] <= 1
  /\ ~os.bad
  /\ \A c \in Conns : os.sock[c].st = "closed" <=> os.closes[c] = 1
  /\ client # NoFd => (os.kind[client] = "conn" /\ SlotConn \in Conns)
  /\ pc = "done" =>
       /\ \A c \in Conns : Accepted(c) => os.closes[c] = 1
       /\ OpenFds(os) = {}

\* C10 witness: the process has exited after admitting one connection and
\* rejecting another
C10_Witness ==
  /\ pc = "done" /\ exitCode = 0
  /\ \E c, d \in Conns : os.role[c] = "admitted" /\ os.role[d] = "rejected"

\* the three startup objects were all constructed
AllValid == valid(sfd) /\ valid(lst) /\ valid(ep)

\* descriptors the startup objects hold
StartupFds == {sfd, lst, ep} \ {NoFd}

\* C11: Startup failure.  When the construction of the signal descriptor, the
\* listener or the epoll instance fails, main returns 1 straight from the startup
\* check: nothing is ever registered, no wait and no dispatch happens, nothing is
\* printed, and once the destructors have run no descriptor acquired during
\* startup is still open.  A constructor that failed holds no descriptor: the
\* open descriptors before the check are exactly those of the valid objects, so a
\* failed Listener construction leaves its handle unset and its socket closed.
\* Exit code 1 arises in no other way.
C11_StartupFailure ==
  /\ pc = "start" => OpenFds(os) = StartupFds
  /\ (pc # "done" /\ ~AllValid) =>
        /\ pc \in {"start", "teardown"}
        /\ pc = "teardown" => exitCode = 1
        /\ OpenFds(os) = StartupFds
  /\ exitCode = 1 =>
        /\ pc \in {"teardown", "done"}
        /\ pc = "teardown" => ~AllValid
        /\ pc = "done" => OpenFds(os) = {}
  /\ (exitCode = 1 \/ (pc # "done" /\ ~AllValid)) =>
        /\ os.reg = {} /\ os.wasReg = {} /\ os.wasRead = {}
        /\ events = <<>> /\ n = 0 /\ i = 0 /\ out = "" /\ client = NoFd
        /\ ~os.bad /\ ~stop

\* main has returned 1 and every descriptor is closed again
C11_Witness == pc = "done" /\ exitCode = 1 /\ OpenFds(os) = {} /\ os.reg = {}

\* the listener alone failed: two descriptors are held when main returns 1
C11_ListenerFailed ==
  pc = "teardown" /\ exitCode = 1 /\ lst = NoFd /\ Cardinality(OpenFds(os)) = 2

\* live objects holding descriptor fd
Owners(fd) == {h \in Handles : hs[h].live /\ hs[h].fd = fd}

\* C12: Handle ownership.  Over every sequence of constructions, wraps, move
\* constructions, move assignments, resets and destructions: a descriptor is
\* held by at most one live object; a descriptor is open exactly while some
\* live object holds it (none leaked, none dangling); every acquired descriptor
\* is closed at most once and is closed exactly when no object holds it any
\* more; close is never called on a descriptor that is not open, so releasing an
\* empty object does nothing; and the source of a move is empty afterwards.
C12_Ownership ==
  /\ \A fd \in Fds : Cardinality(Owners(fd)) <= 1
  /\ \A fd \in Fds : os.kind[fd] # "free" <=> Owners(fd) # {}
  /\ \A c \in Conns : /\ os.closes[c] <= 1
                      /\ os.sock[c].st = "closed" <=> os.closes[c] = 1
                      /\ os.sock[c].st \in {"new", "open", "closed"}
  /\ ~os.bad

C12_MoveStep ==
  \A h, o \in Handles :
    (h # o /\ hs[o].fd # NoFd /\ hs[h].fd # hs[o].fd /\ hs'[h].fd = hs[o].fd)
      => (hs'[o].live /\ hs'[o].fd = NoFd /\ os'.kind[hs[o].fd] = "conn")

C12_HandleOwnership == []C12_Ownership /\ [][C12_MoveStep]_vars

\* one object holds a descriptor, the other is alive and empty, and a
\* descriptor has been released: a move or a reset has happened
C12_Witness ==
  \E h, o \in Handles :
    /\ hs[h].live /\ hs[h].fd # NoFd
    /\ hs[o].live /\ hs[o].fd = NoFd
    /\ \E c \in Conns : os.closes[c] = 1

\* the next recv on the client fails with an error other than EAGAIN
ErrNow ==
  /\ pc = "recv" /\ SlotConn \in Conns
  /\ os.sock[SlotConn].buf = 0 /\ os.sock[SlotConn].peer = "rst"

\* the next recv on the client fails with EAGAIN
AgainNow ==
  /\ pc = "recv" /\ SlotConn \in Conns
  /\ os.sock[SlotConn].buf = 0 /\ os.sock[SlotConn].peer = "open"

\* C13: Hard receive error.  A recv that fails with an error other than EAGAIN
\* takes the client's descriptor off the interest list, closes it once and
\* empties the slot, exactly as an orderly close does; the drain ends there (the
\* read is not tried again), the stop flag is untouched and main goes on with
\* the next entry of the batch.
C13_HardErrorStep ==
  (ErrNow /\ pc' # "recv") =>
     /\ client' = NoFd
     /\ os'.reg = os.reg \ {client}
     /\ os'.kind[client] = "free"
     /\ os'.dels[SlotConn] = 1 /\ os'.closes[SlotConn] = 1
     /\ os'.relReg = os.relReg
     /\ out' = "Client recv error"
     /\ pc' = "dispatch" /\ i' = i + 1
     /\ stop' = stop /\ exitCode' = -1

C13_HardError == [][C13_HardErrorStep]_vars

\* a client was removed by a receive error and the loop is still running
C13_Witness ==
  /\ out = "Client recv error" /\ Running
  /\ client = NoFd
  /\ \E c \in Conns : os.dels[c] = 1 /\ os.closes[c] = 1 /\ os.sock[c].st = "closed"

\* C14: Would-block keeps the connection.  A recv that fails with EAGAIN ends
\* the drain and changes nothing else: the slot, the client's descriptor, its
\* socket and the interest list are as before, nothing is closed or
\* deregistered, and main goes on with the next entry of the batch.
C14_WouldBlockStep ==
  (AgainNow /\ pc' # "recv") =>
     /\ client' = client
     /\ os'.reg = os.reg /\ os'.kind = os.kind /\ os'.conn = os.conn
     /\ os'.sock = os.sock
     /\ os'.closes = os.closes /\ os'.dels = os.dels
     /\ out' = out /\ stop' = stop
     /\ pc' = "dispatch" /\ i' = i + 1

C14_WouldBlock == [][C14_WouldBlockStep]_vars

\* the entry just dispatched was the client's, and the client is still in the
\* slot, registered and open: its drain ended on EAGAIN
C14_Witness ==
  /\ pc = "dispatch" /\ i >= 1 /\ events[i] = client
  /\ client # NoFd /\ client \in os.reg /\ os.kind[client] = "conn"
  /\ SlotConn \in os.wasRead

\* main is inside one of the three drain sub-loops
InDrain == pc \in {"sigdrain", "accept", "recv"}

\* C15: Batch completion after stop.  The stop flag takes no part in the
\* dispatch of a batch: with entries left, the only thing main does is take the
\* branch of the next entry (signal drain, accept drain, read drain, or skip),
\* stop set or not; a drain hands over to the entry after it; the batch is left
\* only when every entry has been dispatched; and once back at the loop
\* condition with stop set main leaves for exit code 0 without waiting again.
\* The stop flag is set by the signal branch only.
C15_BatchStep ==
  /\ (pc = "dispatch" /\ pc' = "loop") => i >= n
  /\ (pc = "dispatch" /\ i < n /\ (pc' # pc \/ i' # i)) =>
        /\ events' = events /\ n' = n
        /\ events[i + 1] = sfd => (pc' = "sigdrain" /\ i' = i)
        /\ (events[i + 1] # sfd /\ events[i + 1] = lst) => (pc' = "accept" /\ i' = i)
        /\ (events[i + 1] \notin {sfd, lst} /\ events[i + 1] = client) =>
              (pc' = "recv" /\ i' = i)
        /\ events[i + 1] \notin {sfd, lst, client} => (pc' = "dispatch" /\ i' = i + 1)
  /\ (InDrain /\ pc' # pc) =>
        (pc' = "dispatch" /\ i' = i + 1 /\ events' = events /\ n' = n)
  /\ (pc = "loop" /\ stop /\ (pc' # pc \/ n' # n)) =>
        (pc' = "teardown" /\ exitCode' = 0 /\ n' = n)
  /\ (~stop /\ stop') => pc = "sigdrain"

C15_BatchCompletion ==
  /\ [][C15_BatchStep]_vars
  /\ [](pc = "dispatch" => (i <= n /\ n = Len(events)))
  /\ [](stop => pc \notin {"start"})

\* stop was set earlier in this batch and a later entry is being drained
C15_Witness ==
  /\ stop /\ pc \in {"accept", "recv"}
  /\ \E j \in 1..i : events[j] = sfd

\* C16: Signal drain result.  drain_and_handle returns only when no signal is
\* pending any more, and what it returns (merged into stop by main) is true
\* exactly when one of the signals it consumed was SIGTERM, whether SIGTERM was
\* consumed before or after a SIGHUP.
C16_DrainStep ==
  (pc = "sigdrain" /\ pc' # "sigdrain") =>
     /\ sigq = {} /\ sigq' = {}
     /\ dstop <=> gterm
     /\ stop' <=> (stop \/ gterm)
     /\ pc' = "dispatch" /\ i' = i + 1

C16_DrainResult ==
  /\ [](pc = "sigdrain" => (dstop <=> gterm))
  /\ [][C16_DrainStep]_vars

\* a drain that consumed SIGTERM and then SIGHUP has returned true
C16_Witness ==
  /\ pc = "dispatch" /\ i >= 1 /\ events[i] = sfd
  /\ stop /\ out = "[signal] SIGHUP" /\ sigq = {}

\* C17: Accept drain.  Every accept that returns a connection handles it
\* (admits or rejects it) and stays in the accept loop; the loop is left only
\* by an accept that fails, and that failure, EAGAIN or not, changes nothing:
\* slot, kernel state, interest list, stop flag and output are as before and
\* main goes on with the next entry of the batch.
C17_AcceptStep ==
  /\ (pc = "accept" /\ pc' # "accept") =>
        /\ client' = client /\ os' = os /\ stop' = stop
        /\ backlog' = backlog /\ out' = out /\ exitCode' = -1
        /\ pc' = "dispatch" /\ i' = i + 1
  /\ (pc = "accept" /\ backlog # <<>> /\ backlog' = Tail(backlog)) =>
        /\ pc' = "accept"
        /\ os'.role[Head(backlog)] \in {"admitted", "rejected"}
        /\ os'.role[Head(backlog)] = "admitted" <=> client = NoFd

C17_AcceptDrain == [][C17_AcceptStep]_vars

\* the accept drain has handled a connection and has ended, the client kept
C17_Witness ==
  /\ pc = "dispatch" /\ i >= 1 /\ events[i] = lst
  /\ out = "Active client already present, closing new"
  /\ client # NoFd /\ client \in os.reg

\* C17 witness of the other failure: the drain ended with a connection pending
C17_HardFailure ==
  /\ pc = "dispatch" /\ i >= 1 /\ events[i] = lst /\ backlog # <<>>

\* C18: Drain sub-loops terminate.  Whenever main is inside the signal drain,
\* the accept drain or the read drain it is eventually back in the dispatch
\* loop.  (Refuted under FairSpec: a drain ends only at its sentinel, and a
\* sender that keeps the source non-empty keeps main inside it.)
C18_DrainsTerminate == InDrain ~> (pc = "dispatch")

\* what does hold: a drain ends unless signals or data keep arriving forever
C18_ReturnUnlessFlooded ==
  ([]<><<Deliver \/ Send>>_vars) \/ C18_DrainsTerminate

\* C19: Empty wait tolerance.  An epoll_wait that returns 0 or -1 is followed
\* by nothing but the loop condition again: no entry is dispatched, the stop
\* flag, the slot, the kernel state with its interest list, the output and the
\* exit code are unchanged, and main is back at the wait with stop still clear.
C19_EmptyWaitStep ==
  (pc = "loop" /\ n' # n /\ n' <= 0) =>
     /\ pc' = "loop"
     /\ ~stop /\ stop' = stop
     /\ client' = client /\ os' = os
     /\ events' = <<>> /\ i' = 0
     /\ out' = out /\ exitCode' = -1

C19_EmptyWait == [][C19_EmptyWaitStep]_vars

\* a wait has just failed while a client is connected; main is waiting again
C19_Witness ==
  /\ pc = "loop" /\ n = -1 /\ ~stop
  /\ client # NoFd /\ client \in os.reg

\* the program steps of the signal branch and of a rejection
SignalBranchStep == pc = "sigdrain" /\ (pc' # pc \/ (sigq' # sigq /\ sigq' \subseteq sigq))
RejectStep == pc = "accept" /\ client # NoFd /\ backlog # <<>> /\ backlog' = Tail(backlog)

\* C20: Rejection and signal handling do not disturb the active client.  A
\* step of the signal branch, and the accept and close of a connection that is
\* turned away, leave the slot, the client's descriptor, its socket with its
\* unread data, and the interest list as they were; the rejected connection is
\* closed without ever being registered; and while the loop runs the slot is
\* emptied by the read branch only.
C20_Step ==
  /\ ((SignalBranchStep \/ RejectStep) /\ client # NoFd) =>
        /\ client' = client
        /\ os'.reg = os.reg
        /\ os'.kind[client] = os.kind[client] /\ os'.conn[client] = os.conn[client]
        /\ os'.sock[SlotConn] = os.sock[SlotConn]
        /\ os'.closes[SlotConn] = os.closes[SlotConn]
        /\ os'.dels[SlotConn] = os.dels[SlotConn]
  /\ RejectStep =>
        /\ os'.sock[Head(backlog)].st = "closed"
        /\ os'.closes[Head(backlog)] = 1
        /\ Head(backlog) \notin os'.wasReg
  /\ (Running /\ client # NoFd /\ client' # client) => (pc = "recv" /\ client' = NoFd)

C20_ClientUndisturbed == [][C20_Step]_vars

\* a connection has just been turned away while the client has unread data
C20_Witness ==
  /\ pc = "accept" /\ out = "Active client already present, closing new"
  /\ client # NoFd /\ client \in os.reg /\ Queued(os, client) > 0

\* a signal has just been handled while the client has unread data
C20_SignalCase ==
  /\ pc = "sigdrain" /\ out = "[signal] SIGHUP"
  /\ client # NoFd /\ client \in os.reg /\ Queued(os, client) > 0

====
